---- MODULE Spec2Model ----
(***************************************************************************)
(* Model of packages/types/src/metadata/util/testUtil.ts: the metadata     *)
(* conformance harness (testMeta and its four components serialize,        *)
(* decodeLatestMeta, toLatest, defaultValues).                             *)
(*                                                                         *)
(* The test runner works in two phases.  In the registration phase the    *)
(* describe() bodies run synchronously and every it() call appends a      *)
(* closure to the list of registered checks.  In the execution phase the  *)
(* runner calls the closures one by one, in registration order; a closure *)
(* that throws fails that named check only.                               *)
(*                                                                         *)
(* The codec, the registry and the test runner are collaborators: what     *)
(* they answer for a given input is drawn from small sets, what the        *)
(* harness does with the answers is translated from the source.            *)
(***************************************************************************)
EXTENDS Integers, Sequences, FiniteSets, TLC

\* ------------------------------------------------------------------ bounds

\* how many times the harness is run over the same fixture store
MaxRuns == 2
\* storage items per fixture
MaxItems == 2
\* patterns in check.fails
MaxFails == 1

\* ------------------------------------------------------- program constants

\* the version that introduced the type lookup (version >= 14, version < 14)
LookupVersion == 14

Versions == {LookupVersion - 1, LookupVersion, LookupVersion + 1}

\* `v${metadata.version}`
VName(v) == IF v = LookupVersion - 1 THEN "v13" ELSE IF v = LookupVersion THEN "v14" ELSE "v15"

\* fixture names (the keys of matchers)
Types == {"substrate", "kusama"}

Subs == {"json", "types"}

\* --------------------------------------------------------------- the store

\* getJsonName: one file per (version, type, sub)
getJsonName(version, type, sub) == <<VName(version), type, sub>>

Keys == {getJsonName(v, t, s) : v \in Versions, t \in Types, s \in Subs}

\* a file: missing, not JSON, or JSON text (a list of "key": value members)
Absent == [kind |-> "absent", text |-> <<>>]
Garbage == [kind |-> "garbage", text |-> <<>>]

FieldOrder == <<"vkey", "lookup", "pallets", "types">>

\* stringify(json, 2): the members of the tree, one after the other
stringify(json) ==
  LET ks == SelectSeq(FieldOrder, LAMBDA k : k \in DOMAIN json)
  IN  [i \in 1..Len(ks) |-> <<ks[i], json[ks[i]]>>]

\* JSON.parse on a text: the tree with the members the text lists
JSONparse(text) ==
  [k \in {text[i][1] : i \in 1..Len(text)} |->
     text[CHOOSE i \in 1..Len(text) : text[i][1] = k][2]]

\* writeJson: fs.writeFileSync(getJsonName(...), stringify(json, 2), {flag: 'w'})
writeJsonMutant(st, json, version, type, sub) ==
  [st EXCEPT ![getJsonName(version, type, "json")] = [kind |-> "text", text |-> stringify(json)]]
writeJson(st, json, version, type, sub) ==
  [st EXCEPT ![getJsonName(version, type, sub)] = [kind |-> "text", text |-> stringify(json)]]

\* readJson: JSON.parse(fs.readFileSync(getJsonName(...))); throws when the file
\* is missing or is not JSON
readJsonThrows(st, version, type, sub) ==
  st[getJsonName(version, type, sub)].kind # "text"

readJson(st, version, type, sub) ==
  JSONparse(st[getJsonName(version, type, sub)].text)

\* expect(json).toEqual(readJson(...)) does not throw
toEqualStored(st, json, version, type, sub) ==
  /\ ~readJsonThrows(st, version, type, sub)
  /\ readJson(st, version, type, sub) = json

\* --------------------------------------------------------------- the codec

PalletsVals == {"p1", "p2"}
LookupVals == {"l1", "l2"}

\* metadata.toJSON(): the tree under `v${metadata.version}`; the lookup exists
\* from version 14 on
toJSON(check) ==
  IF check.version >= LookupVersion
    THEN [vkey |-> VName(check.version), pallets |-> check.pallets, lookup |-> check.lookup]
    ELSE [vkey |-> VName(check.version), pallets |-> check.pallets]

\* delete json.metadata[`v${metadata.version}`].lookup
deleteLookupMutant(json) == json
deleteLookup(json) == [k \in (DOMAIN json) \ {"lookup"} |-> json[k]]

\* metadata.asLatest.lookup.types.toJSON()
lookupTypesToJSON(check) == [types |-> check.lookup]

\* ------------------------------------------------------------------ state

VARIABLES
  env,         \* process.env.GITHUB_REPOSITORY is set
  store,       \* the fixture files under packages/types-support/src/metadata
  version,     \* the declared version (the version argument)
  matchers,    \* fixture name -> Check
  registry,    \* registry -> the fixture whose Metadata is its active schema
  calls,       \* component calls still to be made by the registration phase
  registered,  \* the it() closures registered so far, in order
  results,     \* outcome of each executed check, in order
  ops,         \* log of the registry/codec operations performed
  last,        \* what the collaborators answered in the check run last
  run,         \* number of the harness run
  envs         \* the env of each earlier run over the same store

vars == <<env, store, version, matchers, registry, calls, registered, results, ops, last, run, envs>>

NoMeta == "none"

\* const registry = new TypeRegistry(), once per fixture inside the loop
RegistryOfShared(type) == "substrate"
RegistryOf(type) == type

\* an it() closure with what it captured
Closure(kind, type, item, withThrow, withFallbackCheck) ==
  [kind |-> kind, type |-> type, item |-> item,
   withThrow |-> withThrow, withFallbackCheck |-> withFallbackCheck]

Event(op, who, reg, bound, arg) ==
  [op |-> op, who |-> who, reg |-> reg, bound |-> bound, arg |-> arg]

Outcome(passed, wrote, warned) ==
  [status |-> IF passed THEN "pass" ELSE "fail", wrote |-> wrote, warned |-> warned]

NoEnc == [b \in BOOLEAN |-> <<>>]

Nothing == [kind |-> "none", decodeOk |-> TRUE, inst |-> NoEnc, fb |-> NoEnc, collision |-> FALSE]

\* an exception thrown by a describe() body: the rest of that body is not run.
\* Whether the runner goes on with the next fixture's describe() is up to the
\* runner, so both are possible.
AfterThrow(type) ==
  { SelectSeq(calls, LAMBDA c : c.type # type), <<>> }

\* ---------------------------------------------------------- registration

\* function serialize, lines 136-158
SerializeCall ==
  /\ calls # <<>> /\ Head(calls).fn = "serialize"
  /\ LET type == Head(calls).type
         reg == RegistryOf(type)
         check == matchers[type]
     IN  /\ ops' = Append(ops, Event("newMetadata", "serialize", reg, registry[reg], type))
         /\ IF check.decodes
              THEN /\ registered' = registered \o
                        << Closure("serialize", type, 0, TRUE, FALSE),
                           Closure("callsOnly", type, 0, TRUE, FALSE) >>
                   /\ calls' = Tail(calls)
              ELSE /\ registered' = registered
                   /\ calls' \in AfterThrow(type)
  /\ UNCHANGED <<env, store, version, matchers, registry, results, last, run, envs>>

\* if (version >= 14) around the second it() of decodeLatestMeta
HasTypesCheck(v) == v >= LookupVersion

\* function decodeLatestMeta, lines 34-74 (the describe-time part)
DecodeLatestMetaCall ==
  /\ calls # <<>> /\ Head(calls).fn = "decodeLatestMeta"
  /\ LET type == Head(calls).type
         reg == RegistryOf(type)
         check == matchers[type]
     IN  IF check.decodes
           THEN /\ ops' = ops \o
                     << Event("newMetadata", "decodeLatestMeta", reg, registry[reg], type),
                        Event("setMetadata", "decodeLatestMeta", reg, type, type) >>
                /\ registry' = [registry EXCEPT ![reg] = type]
                /\ registered' = registered \o
                     << Closure("json", type, 0, TRUE, FALSE) >> \o
                     (IF HasTypesCheck(version)
                        THEN << Closure("types", type, 0, TRUE, FALSE) >> ELSE << >>)
                /\ calls' = Tail(calls)
           ELSE /\ ops' = Append(ops, Event("newMetadata", "decodeLatestMeta", reg, registry[reg], type))
                /\ UNCHANGED <<registry, registered>>
                /\ calls' \in AfterThrow(type)
  /\ UNCHANGED <<env, store, version, matchers, results, last, run, envs>>

\* function toLatest, lines 77-89 (the describe-time part: it only registers)
ToLatestCall ==
  /\ calls # <<>> /\ Head(calls).fn = "toLatest"
  /\ LET type == Head(calls).type
     IN  /\ registered' = Append(registered,
                Closure("toLatest", type, 0, Head(calls).withThrow, FALSE))
         /\ calls' = Tail(calls)
  /\ UNCHANGED <<env, store, version, matchers, registry, results, ops, last, run, envs>>

\* function defaultValues, lines 92-134 (the describe-time part): one it() per
\* storage item, after resolving the item's type
DefaultValuesCall ==
  /\ calls # <<>> /\ Head(calls).fn = "defaultValues"
  /\ LET type == Head(calls).type
         reg == RegistryOf(type)
         check == matchers[type]
         n == Len(check.items)
         decoded == Event("newMetadata", "defaultValues", reg, registry[reg], type)
     IN  IF check.decodes /\ check.latestOk
           THEN /\ ops' = ops \o << decoded >> \o
                     [i \in 1..n |-> Event("unwrapStorageType", "defaultValues", reg, registry[reg], type)]
                /\ registered' = registered \o
                     [i \in 1..n |-> Closure("item", type, i,
                                             Head(calls).withThrow, Head(calls).withFallbackCheck)]
                /\ calls' = Tail(calls)
           ELSE /\ ops' = Append(ops, decoded)
                /\ registered' = registered
                /\ calls' \in AfterThrow(type)
  /\ UNCHANGED <<env, store, version, matchers, registry, results, last, run, envs>>

\* ------------------------------------------------------------- execution

\* the check the runner executes next
Pending == calls = <<>> /\ Len(results) < Len(registered)
Current == registered[Len(results) + 1]

\* it('serializes to hex in the same form as retrieved'), lines 139-141
RunSerialize ==
  /\ Pending /\ Current.kind = "serialize"
  /\ results' = Append(results, Outcome(matchers[Current.type].hexSame, FALSE, FALSE))
  /\ last' = Nothing
  /\ UNCHANGED <<env, store, version, matchers, registry, calls, registered, ops, run, envs>>

\* it('can construct from asCallsOnly.toHex()'), lines 153-157
RunCallsOnly ==
  /\ Pending /\ Current.kind = "callsOnly"
  /\ \E ok \in BOOLEAN :
       LET reg == RegistryOf(Current.type)
       IN  /\ ops' = Append(ops, Event("newMetadata", "callsOnly", reg, registry[reg], Current.type))
           /\ results' = Append(results, Outcome(ok, FALSE, FALSE))
           /\ last' = [Nothing EXCEPT !.kind = "callsOnly", !.decodeOk = ok]
  /\ UNCHANGED <<env, store, version, matchers, registry, calls, registered, run, envs>>

\* expect(metadata.version).toBe(version) does not throw
VersionIsDeclaredMutant(check, v) == TRUE
VersionIsDeclared(check, v) == check.version = v

\* if (process.env.GITHUB_REPOSITORY) { throw error; }
RethrowsMutant(e) == FALSE
Rethrows(e) == e

\* try { expect(json).toEqual(readJson(...)) } catch { throw | writeJson(...) },
\* lines 46-55 and 62-71: the outcome and the store it leaves
Reconcile(json, type, sub) ==
  IF toEqualStored(store, json, version, type, sub)
    THEN /\ results' = Append(results, Outcome(TRUE, FALSE, FALSE))
         /\ store' = store
    ELSE IF Rethrows(env)
      THEN /\ results' = Append(results, Outcome(FALSE, FALSE, FALSE))
           /\ store' = store
      ELSE /\ results' = Append(results, Outcome(TRUE, TRUE, FALSE))
           /\ store' = writeJson(store, json, version, type, sub)

\* it('decodes latest substrate properly'), lines 39-56
RunJson ==
  /\ Pending /\ Current.kind = "json"
  /\ LET check == matchers[Current.type]
         json == deleteLookup(toJSON(check))
     IN  IF VersionIsDeclared(check, version)
           THEN Reconcile(json, Current.type, "json")
           ELSE /\ results' = Append(results, Outcome(FALSE, FALSE, FALSE))
                /\ store' = store
  /\ last' = Nothing
  /\ UNCHANGED <<env, version, matchers, registry, calls, registered, ops, run, envs>>

\* it('decodes latest types correctly'), lines 59-72
RunTypes ==
  /\ Pending /\ Current.kind = "types"
  /\ LET check == matchers[Current.type]
         reg == RegistryOf(Current.type)
     IN  /\ ops' = Append(ops, Event("asLatest", "types", reg, registry[reg], Current.type))
         /\ IF check.latestOk
              THEN Reconcile(lookupTypesToJSON(check), Current.type, "types")
              ELSE /\ results' = Append(results, Outcome(FALSE, FALSE, FALSE))
                   /\ store' = store
  /\ last' = Nothing
  /\ UNCHANGED <<env, version, matchers, registry, calls, registered, run, envs>>

\* if (metadata.version < 14) in toLatest, line 85
NeedsUniqScanMutant(check) == check.version <= LookupVersion
NeedsUniqScan(check) == check.version < LookupVersion

\* the flag toLatest hands to getUniqTypes, line 86
ScanFlag(withThrow) == withThrow

\* getUniqTypes(registry, latest, throwError) throws
getUniqTypesThrows(collision, throwError) == collision /\ throwError

\* it(`converts v${version} to latest`), lines 78-88
RunToLatest ==
  /\ Pending /\ Current.kind = "toLatest"
  /\ LET type == Current.type
         check == matchers[type]
         reg == RegistryOf(type)
         decoded == Event("newMetadata", "toLatest", reg, registry[reg], type)
         bound == Event("setMetadata", "toLatest", reg, type, type)
         latest == Event("asLatest", "toLatest", reg, type, type)
     IN  IF ~check.decodes
           THEN /\ ops' = Append(ops, decoded)
                /\ results' = Append(results, Outcome(FALSE, FALSE, FALSE))
                /\ UNCHANGED registry
                /\ last' = [Nothing EXCEPT !.kind = "toLatest", !.decodeOk = FALSE]
           ELSE /\ registry' = [registry EXCEPT ![reg] = type]
                /\ IF ~check.latestOk
                     THEN /\ ops' = ops \o << decoded, bound, latest >>
                          /\ results' = Append(results, Outcome(FALSE, FALSE, FALSE))
                          /\ last' = [Nothing EXCEPT !.kind = "toLatest"]
                     ELSE IF NeedsUniqScan(check)
                       THEN \E collision \in BOOLEAN :
                              /\ ops' = ops \o << decoded, bound, latest,
                                    Event("getUniqTypes", "toLatest", reg, type,
                                          ScanFlag(Current.withThrow)) >>
                              /\ results' = Append(results,
                                    Outcome(~getUniqTypesThrows(collision, ScanFlag(Current.withThrow)),
                                            FALSE, FALSE))
                              /\ last' = [Nothing EXCEPT !.kind = "toLatest", !.collision = collision]
                       ELSE /\ ops' = ops \o << decoded, bound, latest >>
                            /\ results' = Append(results, Outcome(TRUE, FALSE, FALSE))
                            /\ last' = [Nothing EXCEPT !.kind = "toLatest"]
  /\ UNCHANGED <<env, store, version, matchers, calls, registered, run, envs>>

\* one-letter names: stringCamelCase lowers the first letter
Lower(c) == IF c = "A" THEN "a" ELSE IF c = "B" THEN "b" ELSE c
stringCamelCase(name) == [i \in 1..Len(name) |-> IF i = 1 THEN Lower(name[i]) ELSE name[i]]

\* `${sectionName}.${stringCamelCase(name)}: ${inner}`, line 102
Location(item) ==
  stringCamelCase(item.pallet) \o <<".">> \o stringCamelCase(item.name) \o <<":", " ">> \o item.inner

\* location.includes(f)
includes(s, f) ==
  \E i \in 0..(Len(s) - Len(f)) : SubSeq(s, i + 1, i + Len(f)) = f

HexDigits == <<"0", "1", "2", "3", "4", "5", "6", "7", "8", "9", "a", "b", "c", "d", "e", "f">>

\* u8aToHex: "0x" and two digits per byte
u8aToHex(u8a) ==
  [i \in 1..(1 + 2 * Len(u8a)) |->
     IF i = 1 THEN "0x"
     ELSE LET b == u8a[i \div 2]
          IN  IF i % 2 = 0 THEN HexDigits[(b \div 16) + 1] ELSE HexDigits[(b % 16) + 1]]

ByteStrings == { <<1>>, <<1, 255>> }

\* what a codec value answers to toU8a(isBare), for isBare false (or left out)
\* and for isBare true
Encodings == [BOOLEAN -> ByteStrings]
toU8a(value, isBare) == value[isBare]

\* hexType !== hexOrig is false, lines 114-116:
\*   [u8aToHex(instance.toU8a()), u8aToHex(fallback.toU8a(true))]
FallbackMatchesMutant(instance, fallback) ==
  u8aToHex(toU8a(instance, TRUE)) = u8aToHex(toU8a(fallback, FALSE))
FallbackMatches(instance, fallback) ==
  u8aToHex(toU8a(instance, FALSE)) = u8aToHex(toU8a(fallback, TRUE))

\* withThrow && !fails.some((f) => location.includes(f)), line 123
IsFatalMutant(withThrow, fails, location) ==
  withThrow /\ ~ \E i \in 1..Len(fails) : fails[i] # <<>> /\ includes(location, fails[i])
IsFatal(withThrow, fails, location) ==
  withThrow /\ ~ \E i \in 1..Len(fails) : includes(location, fails[i])

\* the try block of an item's check raised: the decode threw, or the fallback
\* check is on and the two hex strings differ
Raised(withFallbackCheck, decodeOk, instance, fallback) ==
  \/ ~decodeOk
  \/ withFallbackCheck /\ ~FallbackMatches(instance, fallback)

\* it(location), lines 104-130
RunItem ==
  /\ Pending /\ Current.kind = "item"
  /\ LET type == Current.type
         check == matchers[type]
         reg == RegistryOf(type)
         location == Location(check.items[Current.item])
     IN  \E decodeOk \in BOOLEAN :
         \E instance \in (IF decodeOk /\ Current.withFallbackCheck THEN Encodings ELSE {NoEnc}) :
         \E fallback \in (IF decodeOk /\ Current.withFallbackCheck THEN Encodings ELSE {NoEnc}) :
           LET raised == Raised(Current.withFallbackCheck, decodeOk, instance, fallback)
               fatal == IsFatal(Current.withThrow, check.fails, location)
           IN  /\ ops' = Append(ops, Event("createType", "item", reg, registry[reg], type))
               /\ results' = Append(results, Outcome(~(raised /\ fatal), FALSE, raised /\ ~fatal))
               /\ last' = [kind |-> "item", decodeOk |-> decodeOk, inst |-> instance,
                           fb |-> fallback, collision |-> FALSE]
  /\ UNCHANGED <<env, store, version, matchers, registry, calls, registered, run, envs>>

\* ------------------------------------------------------------ entry points

Finished == calls = <<>> /\ Len(results) = Len(registered)

Call(fn, type, withThrow, withFallbackCheck) ==
  [fn |-> fn, type |-> type, withThrow |-> withThrow, withFallbackCheck |-> withFallbackCheck]

\* the body of describe(type, ...) in testMeta, lines 165-170
DescribeType(type, withFallback) ==
  << Call("serialize", type, TRUE, FALSE),
     Call("decodeLatestMeta", type, TRUE, FALSE),
     Call("toLatest", type, TRUE, FALSE),
     Call("defaultValues", type, TRUE, withFallback) >>

\* Object.entries(matchers)
Entries == <<"substrate", "kusama">>

\* function testMeta, lines 160-173
testMeta(withFallback) ==
  DescribeType(Entries[1], withFallback) \o DescribeType(Entries[2], withFallback)

Check(decodes, hexSame, v, pallets, lookup, latestOk, items, fails) ==
  [decodes |-> decodes, hexSame |-> hexSame, version |-> v, pallets |-> pallets,
   lookup |-> lookup, latestOk |-> latestOk, items |-> items, fails |-> fails]

\* data the codec cannot decode: new Metadata(registry, data) throws
Undecodable == Check(FALSE, FALSE, LookupVersion, "p1", "l1", TRUE, <<>>, <<>>)

\* the conversion to the latest version can only be missing for a version
\* that predates the lookup
LatestOks(v) == IF v < LookupVersion THEN BOOLEAN ELSE {TRUE}

Item(pallet, name, inner) == [pallet |-> pallet, name |-> name, inner |-> inner]

Items == { Item(<<"A">>, <<n>>, <<"u">>) : n \in {"A", "B"} }

SeqsUpTo(S, n) == UNION { [1..k -> S] : k \in 0..n }

Patterns == { <<>>, <<"a", ".">>, <<".", "b", ":">>, <<"u", "8">> }

EmptyStore == [k \in Keys |-> Absent]

FreshRegistries == [t \in Types |-> NoMeta]

InitRun ==
  /\ registry = FreshRegistries
  /\ registered = <<>>
  /\ results = <<>>
  /\ ops = <<>>
  /\ last = Nothing
  /\ run = 1
  /\ envs = <<>>

\* ---- testMeta(version, matchers, withFallback) over an empty fixture store

DriverItems == { <<>>, << Item(<<"A">>, <<"B">>, <<"u">>) >> }

DriverChecks ==
  {Undecodable} \cup
  { Check(TRUE, h, v, "p1", "l1", l, i, <<>>) :
      h \in BOOLEAN, v \in {LookupVersion - 1, LookupVersion}, l \in BOOLEAN, i \in DriverItems }

Init ==
  /\ env \in BOOLEAN
  /\ store = EmptyStore
  /\ version \in {LookupVersion - 1, LookupVersion}
  /\ matchers \in { m \in [Types -> DriverChecks] :
                      \A t \in Types : m[t].latestOk \in LatestOks(m[t].version) }
  /\ \E withFallback \in BOOLEAN : calls = testMeta(withFallback)
  /\ InitRun

Next ==
  \/ SerializeCall
  \/ DecodeLatestMetaCall
  \/ ToLatestCall
  \/ DefaultValuesCall
  \/ RunSerialize
  \/ RunCallsOnly
  \/ RunJson
  \/ RunTypes
  \/ RunToLatest
  \/ RunItem

Spec == Init /\ [][Next]_vars

\* ---- decodeLatestMeta(registry, type, version, check), run again and again
\* ---- over the fixture store the earlier runs left

ReconcileChecks ==
  {Undecodable} \cup
  { Check(TRUE, TRUE, v, p, l, ok, <<>>, <<>>) :
      v \in Versions, p \in PalletsVals, l \in LookupVals, ok \in BOOLEAN }

\* what the fixture files can hold before a run: nothing, something that is
\* not JSON, or a tree written earlier (stripped of its lookup or not)
JsonFiles ==
  {Absent, Garbage} \cup
  { [kind |-> "text", text |-> stringify(deleteLookup(toJSON(c)))] : c \in ReconcileChecks } \cup
  { [kind |-> "text", text |-> stringify(toJSON(c))] : c \in ReconcileChecks }

TypesFiles ==
  {Absent, Garbage} \cup
  { [kind |-> "text", text |-> stringify(lookupTypesToJSON(c))] : c \in ReconcileChecks }

DecodeLatestMetaOnly == << Call("decodeLatestMeta", Entries[1], TRUE, FALSE) >>

InitReconcile ==
  /\ env \in BOOLEAN
  /\ version \in Versions
  /\ \E c \in ReconcileChecks :
       /\ c.latestOk \in LatestOks(c.version)
       /\ matchers = [t \in Types |-> IF t = Entries[1] THEN c ELSE Undecodable]
  /\ \E j \in JsonFiles, t \in TypesFiles :
       store = [EmptyStore EXCEPT ![getJsonName(version, Entries[1], "json")] = j,
                                  ![getJsonName(version, Entries[1], "types")] = t]
  /\ calls = DecodeLatestMetaOnly
  /\ InitRun

\* the harness is run again (a new process: new registry, new env), the
\* fixture files stay
Rerun ==
  /\ Finished
  /\ run < MaxRuns
  /\ run' = run + 1
  /\ envs' = Append(envs, env)
  /\ env' \in BOOLEAN
  /\ calls' = DecodeLatestMetaOnly
  /\ registry' = FreshRegistries
  /\ registered' = <<>>
  /\ results' = <<>>
  /\ ops' = <<>>
  /\ last' = Nothing
  /\ UNCHANGED <<store, version, matchers>>

NextReconcile ==
  \/ DecodeLatestMetaCall
  \/ RunJson
  \/ RunTypes
  \/ Rerun

SpecReconcile == InitReconcile /\ [][NextReconcile]_vars

\* ---- toLatest(registry, version, check, withThrow) and
\* ---- defaultValues(registry, check, withThrow, withFallbackCheck) called
\* ---- with any flags

ComponentChecks ==
  {Undecodable} \cup
  { Check(TRUE, TRUE, v, "p1", "l1", ok, i, f) :
      v \in Versions, ok \in BOOLEAN, i \in SeqsUpTo(Items, MaxItems), f \in SeqsUpTo(Patterns, MaxFails) }

InitComponents ==
  /\ env \in {TRUE}
  /\ store = EmptyStore
  /\ version \in {LookupVersion}
  /\ \E c \in ComponentChecks :
       /\ c.latestOk \in LatestOks(c.version)
       /\ matchers = [t \in Types |-> IF t = Entries[1] THEN c ELSE Undecodable]
  /\ \E withThrow \in BOOLEAN, withFallbackCheck \in BOOLEAN :
       calls = << Call("toLatest", Entries[1], withThrow, FALSE),
                  Call("defaultValues", Entries[1], withThrow, withFallbackCheck) >>
  /\ InitRun

NextComponents ==
  \/ ToLatestCall
  \/ DefaultValuesCall
  \/ RunToLatest
  \/ RunItem

SpecComponents == InitComponents /\ [][NextComponents]_vars

\* ------------------------------------------------------------- properties

\* the fixture the direct calls of the components work on
F == Entries[1]

\* the tree a fixture check compares: the JSON tree without its lookup for
\* "json", the lookup types for "types"
Produced(sub, check) ==
  IF sub = "json"
    THEN [k \in (DOMAIN toJSON(check)) \ {"lookup"} |-> toJSON(check)[k]]
    ELSE [types |-> check.lookup]

\* the stored fixture is there and deep-equal to the produced tree
StoredEquals(st, sub, type) ==
  /\ st[getJsonName(version, type, sub)].kind = "text"
  /\ JSONparse(st[getJsonName(version, type, sub)].text) = Produced(sub, matchers[type])

\* the check being executed in this step is the fixture check `sub`
Executing(sub) == Pending /\ Current.kind = sub

\* the outcome of the check executed in this step
Executed == Len(results') = Len(results) + 1
Verdict == results'[Len(results')].status

\* C1: with the continuous-integration signal set, a fixture check (kind "json"
\* as well as kind "types") whose stored fixture is absent or not deep-equal to
\* the produced tree fails, and no fixture file is written.
C1_CiMismatchIsFatal ==
  [][ \A sub \in Subs :
        (Executing(sub) /\ env /\ ~StoredEquals(store, sub, Current.type))
          => (Executed /\ Verdict = "fail" /\ store' = store) ]_vars

\* C1 witness: a run under the signal, of the declared version, where both the
\* "json" and the "types" check failed on a mismatch and the files are as before
C1_Witness ==
  /\ env /\ Len(results) = 2
  /\ matchers[F].version = version
  /\ registered[1].kind = "json" /\ registered[2].kind = "types"
  /\ results[1].status = "fail" /\ results[2].status = "fail"
  /\ store[getJsonName(version, F, "json")] = Absent
  /\ store[getJsonName(version, F, "types")].kind = "text"
  /\ ~StoredEquals(store, "types", F)

\* C2: without the signal and with the decoded version equal to the declared
\* one, a fixture check whose stored fixture is absent or not deep-equal passes,
\* and the file at (version, fixtureName, kind) then holds exactly the produced
\* (lookup-stripped) tree; no other file changes.
C2_LocalMismatchIsHealed ==
  [][ \A sub \in Subs :
        (Executing(sub) /\ ~env /\ matchers[Current.type].version = version
           /\ ~StoredEquals(store, sub, Current.type))
          => /\ Executed /\ Verdict = "pass"
             /\ StoredEquals(store', sub, Current.type)
             /\ "lookup" \notin DOMAIN JSONparse(store'[getJsonName(version, Current.type, sub)].text)
             /\ \A k \in Keys \ {getJsonName(version, Current.type, sub)} : store'[k] = store[k] ]_vars

\* C2 witness: a local run of a version >= 14 fixture where both checks passed
\* by writing their file
C2_Witness ==
  /\ ~env /\ Len(results) = 2
  /\ matchers[F].version = version
  /\ results[1] = Outcome(TRUE, TRUE, FALSE) /\ results[2] = Outcome(TRUE, TRUE, FALSE)
  /\ StoredEquals(store, "json", F) /\ StoredEquals(store, "types", F)

\* C6: when the decoded version differs from the declared one the "json" check
\* fails, with and without the signal, and the "json" fixture file is never
\* written by such a run.
C6_VersionMismatchIsFatal ==
  [][ /\ (Executing("json") /\ matchers[Current.type].version # version)
           => (Executed /\ Verdict = "fail" /\ store' = store)
      /\ (matchers[F].version # version)
           => store'[getJsonName(version, F, "json")] = store[getJsonName(version, F, "json")] ]_vars

\* C6 witness: a local run whose decoded version is not the declared one, the
\* "json" check failed and the (mismatching) file is still there
C6_Witness ==
  /\ ~env /\ Len(results) >= 1
  /\ matchers[F].decodes /\ matchers[F].version # version
  /\ registered[1].kind = "json" /\ results[1].status = "fail"
  /\ store[getJsonName(version, F, "json")] = Garbage

\* C7 (as claimed): the "types" check exists exactly when version >= 14, it
\* touches only the "types" file, and a "types" file is written only by a run
\* whose decoded version is the declared one.
C7_TypesWrittenOnlyForDeclaredVersion ==
  [][ /\ (Finished /\ matchers[F].decodes)
           => ((\E i \in 1..Len(registered) : registered[i].kind = "types") <=> version >= LookupVersion)
      /\ Executing("types")
           => store'[getJsonName(version, Current.type, "json")] = store[getJsonName(version, Current.type, "json")]
      /\ store'[getJsonName(version, F, "types")] # store[getJsonName(version, F, "types")]
           => matchers[F].version = version ]_vars

\* after a finished local run of the declared version the files hold the trees
C10_Converged ==
  (Finished /\ ~env /\ matchers[F].decodes /\ matchers[F].version = version)
    => /\ StoredEquals(store, "json", F)
       /\ (version >= LookupVersion => StoredEquals(store, "types", F))

\* the run that follows a local run of the declared version passes every
\* fixture check without writing
C10_NextRunClean ==
  (run >= 2 /\ ~envs[run - 1] /\ matchers[F].version = version)
    => \A i \in 1..Len(results) : results[i] = Outcome(TRUE, FALSE, FALSE)

\* C10: after a local run on a Check of the declared version every fixture file
\* the run handles holds the produced tree; the next run on the same Check, with
\* or without the signal, passes every fixture check and writes nothing; a check
\* whose stored fixture already equals the produced tree never writes.
C10_ReconcilesInOneRun ==
  /\ [](C10_Converged /\ C10_NextRunClean)
  /\ [][ \A sub \in Subs :
           (Executing(sub) /\ StoredEquals(store, sub, Current.type)) => store' = store ]_vars

\* C10 witness: the run after a healing local run, under the signal, has passed
\* both fixture checks
C10_Witness ==
  /\ run = 2 /\ ~envs[1] /\ env
  /\ matchers[F].version = version
  /\ Len(results) = 2 /\ Finished
  /\ results[1].status = "pass" /\ results[2].status = "pass"

\* the check that was executed last, when it was a storage item's check
ItemDone == Len(results) >= 1 /\ last.kind = "item"
DoneCheck == registered[Len(results)]
DoneResult == results[Len(results)]
DoneLocation == Location(matchers[DoneCheck.type].items[DoneCheck.item])

\* f occurs in s as a run of consecutive characters
IsSubstring(f, s) ==
  \E a \in 0..Len(s) : \E b \in a..Len(s) : SubSeq(s, a + 1, b) = f

\* some pattern of check.fails is a substring of the location
Exempt(check, location) ==
  \E k \in 1..Len(check.fails) : IsSubstring(check.fails[k], location)

\* the item's decode threw, or its round-trip comparison did
ItemRaised ==
  \/ ~last.decodeOk
  \/ DoneCheck.withFallbackCheck /\ last.inst[FALSE] # last.fb[TRUE]

\* C3: a storage item whose decode or round-trip comparison raised fails its
\* check exactly when withThrow is true and no pattern of check.fails (the empty
\* pattern included) is a substring of its location; otherwise the error is
\* only warned about and the check passes.
C3_RaisedErrorClassified ==
  (ItemDone /\ ItemRaised)
    => /\ DoneResult.status = "fail"
            <=> (DoneCheck.withThrow /\ ~Exempt(matchers[DoneCheck.type], DoneLocation))
       /\ DoneResult.status = "pass" <=> DoneResult.warned

\* C3 witness: under withThrow an item raised, the only pattern is the empty
\* string, and the check passed with a warning
C3_Witness ==
  /\ ItemDone /\ ItemRaised
  /\ DoneCheck.withThrow
  /\ matchers[DoneCheck.type].fails = << <<>> >>
  /\ DoneResult = Outcome(TRUE, FALSE, TRUE)

\* a non-exempt item under the fallback check: its error would be fatal
StrictItemDone ==
  /\ ItemDone
  /\ DoneCheck.withFallbackCheck /\ DoneCheck.withThrow
  /\ ~Exempt(matchers[DoneCheck.type], DoneLocation)

\* C4 (as claimed): for a non-exempt item whose fallback decoded, the check
\* passes exactly when the instance encoded with the flag equals the fallback's
\* bytes encoded without it.
C4_FlagOnInstance ==
  (StrictItemDone /\ last.decodeOk)
    => (DoneResult.status = "pass" <=> last.inst[TRUE] = last.fb[FALSE])

\* C4 (amended): for a non-exempt item the check passes exactly when the
\* fallback decoded and instance.toU8a() (no flag) equals fallback.toU8a(true):
\* the flag goes to the original fallback, not to the re-encoded instance.
C4_FlagOnFallback ==
  StrictItemDone
    => (DoneResult.status = "pass" <=> (last.decodeOk /\ last.inst[FALSE] = last.fb[TRUE]))

\* C4 witness: a non-exempt item passed where the two readings of the
\* comparison disagree
C4_Witness ==
  /\ StrictItemDone /\ last.decodeOk
  /\ DoneResult.status = "pass"
  /\ last.inst[FALSE] = last.fb[TRUE]
  /\ last.inst[TRUE] # last.fb[FALSE]

\* the positions in the log of the operations `op` made by toLatest
ToLatestOps(op) == { k \in 1..Len(ops) : ops[k].who = "toLatest" /\ ops[k].op = op }

ToLatestDone == Len(results) >= 1 /\ registered[1].kind = "toLatest"

\* C8: toLatest runs the uniqueness scan exactly when the decoded version is
\* below 14 (and the check got that far), only after the decoded metadata was
\* bound to the registry and the latest projection materialized, with the
\* withThrow it was given; a collision fails the check exactly when withThrow.
C8_ScanAfterBindAndLatest ==
  ToLatestDone
    => LET check == matchers[registered[1].type]
           scans == ToLatestOps("getUniqTypes")
       IN  /\ (check.decodes /\ check.latestOk)
                => (scans # {} <=> check.version < LookupVersion)
           /\ \A k \in scans :
                /\ \E a \in ToLatestOps("setMetadata") : \E b \in ToLatestOps("asLatest") :
                     a < b /\ b < k
                /\ check.decodes /\ check.latestOk
                /\ ops[k].bound = registered[1].type
                /\ ops[k].arg = registered[1].withThrow
           /\ (Len(results) = 1 /\ scans # {})
                => (results[1].status = "fail" <=> (last.collision /\ registered[1].withThrow))

\* C8 witness: a version 13 check scanned without withThrow, a collision was
\* found and the check passed
C8_Witness ==
  /\ ToLatestDone /\ Len(results) = 1
  /\ matchers[F].version < LookupVersion
  /\ ToLatestOps("getUniqTypes") # {}
  /\ ~registered[1].withThrow /\ last.collision
  /\ results[1].status = "pass"

\* data is corrupted: it does not decode, or does not re-encode to itself
Corrupted(check) == ~check.decodes \/ ~check.hexSame

Registered(kind, type) ==
  { i \in 1..Len(registered) : registered[i].kind = kind /\ registered[i].type = type }

\* C5 (as claimed): for a fixture with corrupted data whose describe body has
\* run, the "serializes to hex" check is registered, and fails when executed,
\* whether or not the decode threw; its sibling checks are registered too.
C5_CorruptDataFailsSerializeCheck ==
  \A t \in Types :
    (Corrupted(matchers[t]) /\ \A k \in 1..Len(calls) : calls[k].type # t)
      => /\ Registered("serialize", t) # {}
         /\ \A i \in Registered("serialize", t) : i <= Len(results) => results[i].status = "fail"
         /\ Registered("json", t) # {}
         /\ Registered("toLatest", t) # {}

DecodeDependent == {"newMetadata", "unwrapStorageType", "createType"}

OwnRegistries == \A t \in Types : registry[t] \in {NoMeta, t}

\* C9 (as claimed): every decode-dependent operation of a fixture runs on a
\* registry already bound to Metadata of that fixture's data, and no registry
\* holds another fixture's Metadata.
C9_BoundBeforeEveryDecode ==
  /\ \A k \in 1..Len(ops) :
       ops[k].op \in DecodeDependent => ops[k].bound = ops[k].arg
  /\ OwnRegistries

\* the Metadata decodes that run before the fixture's registry is first bound
BeforeBinding(e) == e.op = "newMetadata" /\ e.who \in {"serialize", "decodeLatestMeta"}

\* C9 (amended): the Metadata decodes of serialize and of the head of
\* decodeLatestMeta run on the still unbound registry; every later
\* decode-dependent operation runs on a registry bound to Metadata of the same
\* fixture's data; no registry ever holds another fixture's Metadata.
C9_BoundAfterDecodeLatestMeta ==
  /\ \A k \in 1..Len(ops) :
       ops[k].op \in DecodeDependent
         => ops[k].bound = (IF BeforeBinding(ops[k]) THEN NoMeta ELSE ops[k].arg)
  /\ OwnRegistries

\* C9 witness: both fixtures went through all their checks, the second one
\* decoded a storage item's fallback on its own bound registry
C9_Witness ==
  /\ Finished
  /\ \A t \in Types : registry[t] = t /\ Registered("item", t) # {}
  /\ \E k \in 1..Len(ops) :
       ops[k].op = "createType" /\ ops[k].arg = Entries[2] /\ ops[k].bound = Entries[2]

====
